---- MODULE Spec2Model ----
(***************************************************************************)
(* Model of the GPU sizer service: the KV-cache estimator and the device   *)
(* selector of sizing_logic.py, the model-descriptor resolution of         *)
(* model_service.py and the request handlers of main.py.                   *)
(*                                                                         *)
(* Three specifications share the module:                                  *)
(*   SpecKV   estimate_kv_cache_gb applied to bounded arguments            *)
(*   SpecRec  the /recommendation computation over catalogs                *)
(*   Spec     concurrent callers of the handlers over the models table     *)
(*                                                                         *)
(* Python values.  An optional value is a sequence of length at most one:  *)
(* None is <<>> and a present value v is <<v>>.  A float is a rational     *)
(* [num, den] with den > 0; the estimators only ever divide by the fixed   *)
(* constants 2^30 and 100, so every float of the model is exact.           *)
(*                                                                         *)
(* Scope.  Rows carry the columns some modelled code reads or writes;      *)
(* architecture, use_cache, query_count and last_accessed_at are written   *)
(* by every save with the other columns and read by nothing.  Each SQL     *)
(* statement is one atomic step (SQLite serialises them); a failing        *)
(* statement and a missing gpu_catalog.json are not modelled.  Configs     *)
(* are dense: the mixture-of-experts branch of estimate_weights_gib is     *)
(* not entered.                                                            *)
(***************************************************************************)
EXTENDS Integers, Sequences, FiniteSets, TLC

VARIABLES
    \* SpecKV: the arguments, the position, the base and the doubled result
    kvArgs, kvBase, kvWhich, kvDoubled,
    \* SpecRec: gpu_catalog.json, the request, the selector's result, the
    \* HTTP response and the position
    catalog, req, rec, resp, recPc,
    \* Spec: the rows of the models table; per caller the position, the
    \* request being served, get_model_details' local `result`, the config
    \* the request last fetched and the response; per model_id the row the
    \* latest save_model call wrote
    table, pc, op, result, fetched, response, lastWrite

varsKV == <<kvArgs, kvBase, kvWhich, kvDoubled>>

varsRec == <<catalog, req, rec, resp, recPc>>

varsSvc == <<table, pc, op, result, fetched, response, lastWrite>>

vars ==
    <<kvArgs, kvBase, kvWhich, kvDoubled, catalog, req, rec, resp, recPc,
      table, pc, op, result, fetched, response, lastWrite>>

\* ---------------------------------------------------------------- values

None == <<>>

Some(v) == <<v>>

Val(x) == x[1]

\* Python truthiness of an optional integer: None and 0 are falsy.
Truthy(x) == x # None /\ Val(x) # 0

\* A float as an exact rational.
Q(n, d) == [num |-> n, den |-> d]

\* ceil(q) for a rational q with q.den > 0.
Ceil(q) == 0 - ((0 - q.num) \div q.den)

\* n >= q for an integer n and a rational q.
IntGeq(n, q) == n >= Ceil(q)

\* n <= q for an integer n and a rational q.
IntLeq(n, q) == n <= q.num \div q.den

\* a = b, a + b and q * n on rationals.
QEq(a, b) == a.num * b.den = b.num * a.den

QAdd(a, b) == Q(a.num * b.den + b.num * a.den, a.den * b.den)

QMulInt(q, n) == Q(q.num * n, q.den)

\* 1024 ** 3
GiB == 1073741824

\* ------------------------------------------------- estimate_kv_cache_gb

\* The keyword-only parameters of estimate_kv_cache_gb.
estimate_kv_cache_gb_params ==
    {"num_layers", "num_attention_heads", "hidden_size", "seq_len",
     "dtype_bytes", "head_dim"}

\* head_dim as the function resolves it: the argument when one is passed,
\* else hidden_size // num_attention_heads.  None when the derived value
\* is <= 0 (the function returns None there).
resolve_head_dim(a) ==
    IF a.head_dim # None
    THEN a.head_dim
    ELSE IF Val(a.num_attention_heads) = 0
         THEN None
         ELSE LET d == Val(a.hidden_size) \div Val(a.num_attention_heads)
              IN  IF d <= 0 THEN None ELSE Some(d)

kv_bytes_total_mut(a, hd) ==
    Val(a.num_layers) * Val(a.seq_len) * Val(a.num_attention_heads)
        * hd * 2 * Val(a.dtype_bytes)
    + Val(a.num_attention_heads) * hd

\* bytes_total of line 140.
kv_bytes_total(a, hd) ==
    Val(a.num_layers) * Val(a.seq_len) * Val(a.num_attention_heads)
        * hd * 2 * Val(a.dtype_bytes)

\* The returned value: None, or Some(bytes_total / 2^30) as a rational.
estimate_kv_cache_gb(a) ==
    IF ~(Truthy(a.num_layers) /\ Truthy(a.num_attention_heads)
            /\ Truthy(a.hidden_size) /\ Truthy(a.seq_len)
            /\ Truthy(a.dtype_bytes))
    THEN None
    ELSE LET hd == resolve_head_dim(a)
         IN  IF hd = None
             THEN None
             ELSE Some(Q(kv_bytes_total(a, Val(hd)), GiB))


\* ----------------------------------------------- get_effective_kv_cache

\* The outcome of a call: a returned value, or a raised exception.
Returned(v) == [raised |-> FALSE, exc |-> "", v |-> v]

Raised(e) == [raised |-> TRUE, exc |-> e, v |-> None]

\* seq_len or 2048
DefaultSeqLen == 2048

\* dtype_bytes=2
DefaultDtypeBytes == 2

\* The call estimate_kv_cache_gb(num_layers=..., ..., users=users) of
\* lines 154-161 and 173-180: the keywords passed are bound to the
\* keyword-only parameters, and a keyword that is no parameter raises
\* TypeError before the body runs.
estimate_call(model_info, users) ==
    LET passed == {"num_layers", "num_attention_heads", "hidden_size",
                   "seq_len", "dtype_bytes", "users"}
    IN  IF ~(passed \subseteq estimate_kv_cache_gb_params)
        THEN Raised("TypeError")
        ELSE Returned(estimate_kv_cache_gb(
                 [num_layers |-> model_info.num_hidden_layers,
                  num_attention_heads |-> model_info.num_attention_heads,
                  hidden_size |-> model_info.hidden_size,
                  seq_len |-> Some(DefaultSeqLen),
                  dtype_bytes |-> Some(DefaultDtypeBytes),
                  head_dim |-> None]))

\* The stored footprints in the order the loop of line 163 reads them.
stored_kv(model_info) ==
    <<model_info.kv_cache_fp16_gb, model_info.kv_cache_bf16_gb,
      model_info.kv_cache_fp32_gb>>

RECURSIVE first_positive(_, _)
\* The first stored value that is not None and > 0, else None.
first_positive(vs, i) ==
    IF i > Len(vs) THEN None
    ELSE IF vs[i] # None /\ Val(vs[i]).num > 0 THEN vs[i]
    ELSE first_positive(vs, i + 1)

get_effective_kv_cache(model_info, users, kv_cache_override, force_recalc_kv) ==
    IF kv_cache_override # None
    THEN Returned(kv_cache_override)
    ELSE IF force_recalc_kv
    THEN estimate_call(model_info, users)
    ELSE LET v == first_positive(stored_kv(model_info), 1)
         IN  IF v # None THEN Returned(v)
             ELSE estimate_call(model_info, users)

\* ------------------------------------------------ get_gpu_recommendation

\* gpu.get("VRAM (GB)", default): the default only when the key is absent;
\* a key present with the JSON value null gives None.
vram_get(gpu, default) ==
    IF gpu.has_vram THEN gpu.vram ELSE Some(default)

\* gpu.get("VRAM (GB)", 0)
FilterDefault == 0

\* x.get("VRAM (GB)", 9999)
SortDefault == 9999

eligible_gpus_mut(gpus, kv) ==
    LET F[i \in 0..Len(gpus)] ==
            IF i = 0 THEN <<>>
            ELSE IF IntLeq(Val(vram_get(gpus[i], FilterDefault)), kv)
                 THEN Append(F[i - 1], gpus[i])
                 ELSE F[i - 1]
    IN  F[Len(gpus)]

\* [gpu for gpu in gpus if gpu.get("VRAM (GB)", 0) >= kv_cache_gb], for
\* catalogs with no null memory value (a None >= float raises, see below).
eligible_gpus(gpus, kv) ==
    LET F[i \in 0..Len(gpus)] ==
            IF i = 0 THEN <<>>
            ELSE IF IntGeq(Val(vram_get(gpus[i], FilterDefault)), kv)
                 THEN Append(F[i - 1], gpus[i])
                 ELSE F[i - 1]
    IN  F[Len(gpus)]

sort_key(g) == Val(vram_get(g, SortDefault))

RECURSIVE insert_stable(_, _)
\* x put into the sorted s after every element whose key is <= its own.
insert_stable(s, x) ==
    IF s = <<>> THEN <<x>>
    ELSE IF sort_key(Head(s)) <= sort_key(x)
         THEN <<Head(s)>> \o insert_stable(Tail(s), x)
         ELSE <<x>> \o s

\* list.sort(key=...): ascending by key, stable.
sort_by_vram(s) ==
    LET F[i \in 0..Len(s)] ==
            IF i = 0 THEN <<>> ELSE insert_stable(F[i - 1], s[i])
    IN  F[Len(s)]

\* The selector's outcome as one record shape: kind is "ok" (the dict of
\* lines 202-209), "error" (a dict with the key "error") or "raise".
RecOk(recommended, alternatives, kv, users, latency) ==
    [kind |-> "ok", error |-> "", recommended |-> Some(recommended),
     alternatives |-> alternatives, required_vram |-> Some(kv),
     kv_cache_fp16_gb |-> Some(kv), users |-> Some(users),
     latency |-> Some(latency)]

RecError(msg) ==
    [kind |-> "error", error |-> msg, recommended |-> None,
     alternatives |-> <<>>, required_vram |-> None,
     kv_cache_fp16_gb |-> None, users |-> None, latency |-> None]

RecRaise(e) ==
    [kind |-> "raise", error |-> e, recommended |-> None,
     alternatives |-> <<>>, required_vram |-> None,
     kv_cache_fp16_gb |-> None, users |-> None, latency |-> None]

get_gpu_recommendation(model_info, gpus, users, latency, kv_cache_override, force_recalc_kv) ==
    LET kvo == get_effective_kv_cache(model_info, users, kv_cache_override,
                                      force_recalc_kv)
    IN  IF kvo.raised THEN RecRaise(kvo.exc)
        ELSE IF kvo.v = None \/ Val(kvo.v).num = 0
        THEN RecError("Missing or invalid KV cache size for model.")
        ELSE IF \E i \in 1..Len(gpus) : gpus[i].has_vram /\ gpus[i].vram = None
        THEN RecRaise("TypeError")
        ELSE LET eligible == eligible_gpus(gpus, Val(kvo.v))
                 sorted == sort_by_vram(eligible)
             IN  IF eligible = <<>>
                 THEN RecError("No suitable GPU found.")
                 ELSE RecOk(Head(sorted), Tail(sorted), Val(kvo.v),
                            users, latency)

\* The tail of recommend_gpu (main.py 102-112): a result with the key
\* "error" becomes HTTP 400, an exception that escapes the handler is the
\* framework's HTTP 500, anything else is returned with HTTP 200.
recommend_response(r) ==
    IF r.kind = "error" THEN [status |-> 400, detail |-> r.error]
    ELSE IF r.kind = "raise" THEN [status |-> 500, detail |-> "Internal Server Error"]
    ELSE [status |-> 200, detail |-> ""]

\* A resolved descriptor as get_model_details returns it.
Descriptor(id, hidden, layers, heads, fp16, bf16, fp32, cfg, missing, weights) ==
    [model_id |-> id, hidden_size |-> hidden, num_hidden_layers |-> layers,
     num_attention_heads |-> heads, kv_cache_fp16_gb |-> fp16,
     kv_cache_bf16_gb |-> bf16, kv_cache_fp32_gb |-> fp32,
     config_json |-> cfg, missing_kv_cache |-> missing,
     minimal_gpu_memory_gb |-> weights]

\* ----------------------------------------------------- estimate_weights_gib

\* A fetched config.json: the keys the extraction reads (None: key absent).
\* The configs of the model carry no text_config section, no MoE keys and
\* no alternative key spellings except n_head.
Config(hidden, layers, heads, kvheads, headdim, maxpos, kvfp16, vocab, inter, dtype) ==
    [hidden_size |-> hidden, num_hidden_layers |-> layers,
     num_attention_heads |-> heads, num_key_value_heads |-> kvheads,
     head_dim |-> headdim, max_position_embeddings |-> maxpos,
     kv_cache_fp16_gb |-> kvfp16, vocab_size |-> vocab,
     intermediate_size |-> inter, torch_dtype |-> dtype]

\* v = 256000.0 when vocab_size is absent
DefaultVocab == 256000

Max(a, b) == IF a >= b THEN a ELSE b

\* round(n / d) to the nearest integer, n >= 0 and d > 0.
RoundDiv(n, d) == (n \div d) + (IF 2 * (n % d) >= d THEN 1 ELSE 0)

\* Lines 53-112 for a dense config: None when hidden size, layers or vocab
\* is missing or zero, else round(params * bpp * 1.10 / 2^30, 2) in
\* hundredths of a GiB.
estimate_weights_gib(cfg) ==
    LET v == IF cfg.vocab_size = None THEN Some(DefaultVocab) ELSE cfg.vocab_size
        i == IF Truthy(cfg.intermediate_size) THEN Val(cfg.intermediate_size) ELSE 0
    IN  IF ~(Truthy(cfg.hidden_size) /\ Truthy(cfg.num_hidden_layers) /\ Truthy(v))
        THEN None
        ELSE LET d == Val(cfg.hidden_size)
                 L == Val(cfg.num_hidden_layers)
                 bpp == IF cfg.torch_dtype \in {"float32", "fp32"} THEN 4 ELSE 2
                 per_layer_mlp == L * (4 * d * d + 3 * d * i) + Val(v) * d
                 llama_like == 12 * d * d * L + Val(v) * d
                 dense_params == Max(per_layer_mlp, llama_like)
             IN  Some(Q(RoundDiv(dense_params * bpp * 110, GiB), 100))

\* The empty dict that json.loads("{}") gives the backfill of a row whose
\* config_json is NULL.
EmptyConfig == Config(None, None, None, None, None, None, None, None, None, "")

\* --------------------------------------------------- _extract_from_config

\* Python's `a or b` on optional integers.
Or(a, b) == IF Truthy(a) THEN a ELSE b

\* A Python bool, and the integer SQLite's BOOLEAN column gives back.
PyBool(b) == IF b THEN "True" ELSE "False"

sqlite_bool(x) == IF x \in {"True", "1"} THEN "1" ELSE "0"

\* bool(x) of a missing_kv_cache value.
Marked(x) == x \in {"True", "1"}

\* Lines 194-228 when no KV key is in the config: the int() conversions of
\* lines 219-221 raise TypeError on None; otherwise the estimate is stored
\* and missing_kv_cache says whether it is None.
extract_estimate(cfg) ==
    LET seq_len == IF Truthy(cfg.max_position_embeddings)
                   THEN cfg.max_position_embeddings ELSE Some(DefaultSeqLen)
        kv_heads == Or(cfg.num_key_value_heads, cfg.num_attention_heads)
        head_dim == IF ~Truthy(cfg.head_dim) /\ Truthy(cfg.hidden_size)
                          /\ Truthy(cfg.num_attention_heads)
                    THEN Some(Val(cfg.hidden_size) \div Val(cfg.num_attention_heads))
                    ELSE cfg.head_dim
    IN  IF cfg.num_hidden_layers = None \/ kv_heads = None \/ cfg.hidden_size = None
        THEN Raised("TypeError")
        ELSE Returned(estimate_kv_cache_gb(
                 [num_layers |-> cfg.num_hidden_layers,
                  num_attention_heads |-> kv_heads,
                  hidden_size |-> cfg.hidden_size,
                  seq_len |-> seq_len,
                  dtype_bytes |-> Some(DefaultDtypeBytes),
                  head_dim |-> head_dim]))

\* The descriptor built from a fetched config, or the exception raised.
extract_from_config(model_id, cfg) ==
    LET w == estimate_weights_gib(cfg)
    IN  IF cfg.kv_cache_fp16_gb # None
        THEN Returned(Some(Descriptor(model_id, cfg.hidden_size,
                 cfg.num_hidden_layers, cfg.num_attention_heads,
                 cfg.kv_cache_fp16_gb, None, None, Some(cfg),
                 PyBool(FALSE), w)))
        ELSE LET e == extract_estimate(cfg)
             IN  IF e.raised THEN Raised(e.exc)
                 ELSE Returned(Some(Descriptor(model_id, cfg.hidden_size,
                          cfg.num_hidden_layers, cfg.num_attention_heads,
                          e.v, None, None, Some(cfg),
                          PyBool(e.v = None), w)))

\* ---------------------------------------------------------- save_model

Columns ==
    {"model_id", "hidden_size", "num_hidden_layers", "num_attention_heads",
     "kv_cache_fp16_gb", "kv_cache_bf16_gb", "kv_cache_fp32_gb",
     "config_json", "missing_kv_cache", "minimal_gpu_memory_gb"}

\* The value a column holds after the bound parameter is stored.
db_value(c, x) == IF c = "missing_kv_cache" THEN sqlite_bool(x) ELSE x

\* The row as SQLite stores the dict model_info.
db_row(model_info) == [c \in Columns |-> db_value(c, model_info[c])]

save_model_mut(rows, model_info) ==
    LET new == db_row(model_info)
        old == {r \in rows : r.model_id = new.model_id}
    IN  IF old = {} THEN rows \cup {new}
        ELSE (rows \ old) \cup
             {[r EXCEPT !.minimal_gpu_memory_gb = new.minimal_gpu_memory_gb,
                        !.kv_cache_fp16_gb = new.kv_cache_fp16_gb,
                        !.missing_kv_cache = new.missing_kv_cache] : r \in old}

\* INSERT INTO models (all keys) VALUES (...) ON CONFLICT(model_id) DO
\* UPDATE SET k=excluded.k for every key k but model_id: in one statement,
\* the row of that model_id is inserted, or every column the dict carries
\* is overwritten.
save_model(rows, model_info) ==
    LET new == db_row(model_info)
        old == {r \in rows : r.model_id = new.model_id}
    IN  IF old = {} THEN rows \cup {new}
        ELSE (rows \ old) \cup
             {[c \in Columns |-> IF c \in DOMAIN model_info /\ c # "model_id"
                                 THEN new[c] ELSE r[c]] : r \in old}

\* ------------------------------------------------------------- SpecKV

MaxDim == 3

OptDims == {None} \cup {Some(n) : n \in 0..MaxDim}

OptHeadDims == {None} \cup {Some(n) : n \in (0 - 1)..MaxDim}

DtypeBytes == {None, Some(0), Some(2), Some(4)}

KvArgSpace ==
    [num_layers : OptDims, num_attention_heads : OptDims,
     hidden_size : OptDims, seq_len : OptDims,
     dtype_bytes : DtypeBytes, head_dim : OptHeadDims]

DoubledArg == {"num_layers", "seq_len", "num_attention_heads"}

\* The arguments with the one named `which` doubled (None stays None).
Doubled(a, which) ==
    IF a[which] = None THEN a
    ELSE [a EXCEPT ![which] = Some(2 * Val(a[which]))]

\* The variables of a specification that is not the one running.
KVOff == kvArgs = None /\ kvBase = None /\ kvWhich = "off" /\ kvDoubled = None

RecOff ==
    catalog = <<>> /\ req = None /\ rec = None /\ resp = None /\ recPc = "off"

SvcOff ==
    /\ table = {} /\ pc = None /\ op = None /\ result = None
    /\ fetched = None /\ response = None /\ lastWrite = None

InitKV ==
    /\ kvArgs \in KvArgSpace
    /\ kvBase = None
    /\ kvWhich = "args"
    /\ kvDoubled = None
    /\ RecOff
    /\ SvcOff

KvEstimate ==
    /\ kvWhich = "args"
    /\ kvWhich' = "base"
    /\ kvBase' = estimate_kv_cache_gb(kvArgs)
    /\ UNCHANGED <<kvArgs, kvDoubled>>
    /\ UNCHANGED <<varsRec, varsSvc>>

KvDouble(which) ==
    /\ kvWhich = "base"
    /\ kvWhich' = which
    /\ kvDoubled' = estimate_kv_cache_gb(Doubled(kvArgs, which))
    /\ UNCHANGED <<kvArgs, kvBase>>
    /\ UNCHANGED <<varsRec, varsSvc>>

NextKV ==
    \/ KvEstimate
    \/ \E which \in DoubledArg : KvDouble(which)

SpecKV == InitKV /\ [][NextKV]_vars

\* ------------------------------------------------------------ SpecRec

MaxCatalog == 6

\* Catalog records: a name, the memory field "VRAM (GB)" (key absent, null
\* or a number of GiB) and a compute-throughput figure.
Gpu(name, has, vram, tput) ==
    [name |-> name, has_vram |-> has, vram |-> vram, throughput |-> tput]

GpuKinds ==
    {Gpu("L4", TRUE, Some(24), 1),
     Gpu("A100", TRUE, Some(80), 1),
     Gpu("H100", TRUE, Some(80), 2),
     Gpu("nokey", FALSE, None, 1),
     Gpu("null", TRUE, None, 1)}

\* Descriptors of the requests: weights 40 GiB, stored KV footprint absent
\* or 3 GiB per user.
RecModelInfos ==
    {Descriptor("m", Some(32), Some(2), Some(4), fp16, None, None, None, "0",
                Some(Q(40, 1))) : fp16 \in {None, Some(Q(3, 1))}}

RecOverrides == {None, Some(Q(0 - 1, 1)), Some(Q(0, 1)), Some(Q(2, 1)), Some(Q(50, 1))}

RecUsers == {1, 5}

\* Latency targets in ms, and the model's base latency in ms (a quantity
\* of the specification's data model; no code reads it).
RecLatencies == {400, 500}

RecBaseLatencies == {500}

Requests ==
    [model_info : RecModelInfos, users : RecUsers, latency : RecLatencies,
     base_latency_ms : RecBaseLatencies, kv_cache_override : RecOverrides,
     force_recalc_kv : BOOLEAN]

InitRec ==
    /\ KVOff
    /\ SvcOff
    /\ catalog = <<>>
    /\ req = None
    /\ rec = None
    /\ resp = None
    /\ recPc = "idle"

\* gpu_catalog.json gains a record.
AddGpu ==
    /\ recPc = "idle"
    /\ Len(catalog) < MaxCatalog
    /\ \E g \in GpuKinds : catalog' = Append(catalog, g)
    /\ UNCHANGED <<req, rec, resp, recPc>>
    /\ UNCHANGED <<varsKV, varsSvc>>

\* GET /recommendation with the descriptor already resolved: the catalog
\* is read, get_gpu_recommendation runs and the response is formed.
Recommend ==
    /\ recPc = "idle"
    /\ \E r \in Requests :
         LET out == get_gpu_recommendation(r.model_info, catalog, r.users,
                        r.latency, r.kv_cache_override, r.force_recalc_kv)
         IN  /\ req' = Some(r)
             /\ rec' = Some(out)
             /\ resp' = Some(recommend_response(out))
    /\ recPc' = "done"
    /\ UNCHANGED catalog
    /\ UNCHANGED <<varsKV, varsSvc>>

NextRec == AddGpu \/ Recommend

SpecRec == InitRec /\ [][NextRec]_vars

\* --------------------------------------------------------------- Spec

MaxCallers == 2

Callers == 1..MaxCallers

ModelIds == {"m"}

\* What the hub can serve as config.json of a model over time: two LLaMA
\* style configs (2 and 4 layers), a GPT-2 style config that spells its
\* sizes n_embd / n_layer (so hidden size and layer count are absent), a
\* config whose layer count is 0, and one that carries kv_cache_fp16_gb.
RemoteConfigs ==
    {Config(Some(32), Some(2), Some(4), None, None, None, None, None, None, "bfloat16"),
     Config(Some(32), Some(4), Some(4), Some(2), None, Some(4096), None, None, Some(64), "bfloat16"),
     Config(None, None, Some(4), None, None, None, None, Some(50257), None, ""),
     Config(Some(32), Some(0), Some(4), None, None, None, None, None, None, ""),
     Config(None, None, None, None, None, None, Some(Q(2, 1)), None, None, "")}

\* gpu_catalog.json of the running service.
ServiceCatalog ==
    <<Gpu("A100", TRUE, Some(80), 1), Gpu("L4", TRUE, Some(24), 1)>>

\* A row written by a deployment that had no minimal_gpu_memory_gb column:
\* the migration of _ensure_db added the column as NULL.
LegacyRows ==
    {[db_row(Val(extract_from_config(id, c).v))
         EXCEPT !.minimal_gpu_memory_gb = None] :
       id \in ModelIds,
       c \in {Config(Some(32), Some(2), Some(4), None, None, None, None, None, None, "bfloat16")}}

Request(kind, id, force, users, latency, override) ==
    [kind |-> kind, model_id |-> id, force_recalc_kv |-> force, attempt |-> 1,
     users |-> users, latency |-> latency, kv_cache_override |-> override]

\* GET /models/{id}, POST /models/{id}/recalc and GET /recommendation.
SvcRequests ==
    {Request("get_model", id, f, 0, 0, None) : id \in ModelIds, f \in BOOLEAN}
    \cup {Request("recalc", id, TRUE, 0, 0, None) : id \in ModelIds}
    \cup {Request("recommend", id, f[1], 5, 500, f[2]) :
            id \in ModelIds, f \in BOOLEAN \X {None, Some(Q(2, 1))}}

Response(status, detail, details, r) ==
    [status |-> status, detail |-> detail, details |-> details, rec |-> r]

NotFound == Response(404, "Model not found or inaccessible.", None, None)

\* What the handler does once get_model_details returned `details` (None
\* or a row): the next position, request and response of the caller.
\* get_model calls get_model_details a second time, forced, when the first
\* call returned None (main.py 58-61).
after_details(o, details) ==
    IF o.kind = "get_model" /\ details = None /\ o.attempt = 1
    THEN [pc |-> "lookup",
          op |-> [o EXCEPT !.attempt = 2, !.force_recalc_kv = TRUE],
          response |-> None]
    ELSE IF details = None
    THEN [pc |-> "idle", op |-> o, response |-> Some(NotFound)]
    ELSE IF o.kind \in {"get_model", "recalc"}
    THEN [pc |-> "idle", op |-> o,
          response |-> Some(Response(200, "", details, None))]
    ELSE LET r == get_gpu_recommendation(Val(details), ServiceCatalog,
                      o.users, o.latency, o.kv_cache_override,
                      o.force_recalc_kv)
             h == recommend_response(r)
         IN  [pc |-> "idle", op |-> o,
              response |-> Some(Response(h.status, h.detail, None, Some(r)))]

\* The caller p returns `details` from get_model_details.
Return(p, details) ==
    LET n == after_details(Val(op[p]), details)
    IN  /\ pc' = [pc EXCEPT ![p] = n.pc]
        /\ op' = [op EXCEPT ![p] = Some(n.op)]
        /\ response' = [response EXCEPT ![p] = n.response]
        /\ result' = [result EXCEPT ![p] = None]

InitSvc ==
    /\ KVOff
    /\ RecOff
    /\ table \in {{}} \cup {{r} : r \in LegacyRows}
    /\ pc = [p \in Callers |-> "idle"]
    /\ op = [p \in Callers |-> None]
    /\ result = [p \in Callers |-> None]
    /\ fetched = [p \in Callers |-> None]
    /\ response = [p \in Callers |-> None]
    /\ lastWrite = [id \in ModelIds |-> None]

\* A request arrives and its handler starts.
Call(p) ==
    /\ pc[p] = "idle"
    /\ \E o \in SvcRequests : op' = [op EXCEPT ![p] = Some(o)]
    /\ pc' = [pc EXCEPT ![p] = "lookup"]
    /\ response' = [response EXCEPT ![p] = None]
    /\ fetched' = [fetched EXCEPT ![p] = None]
    /\ UNCHANGED <<table, result, lastWrite>>
    /\ UNCHANGED <<varsKV, varsRec>>

\* Lines 67-82 with every field of the row recomputed from config_json, not
\* only the weight footprint.
backfill_mut(r) ==
    LET cfg == IF r.config_json = None THEN EmptyConfig
               ELSE Val(r.config_json)
        w == estimate_weights_gib(cfg)
    IN  IF w # None
        THEN [row |-> [r EXCEPT !.minimal_gpu_memory_gb = w,
                                !.kv_cache_fp16_gb = None],
              changed |-> TRUE]
        ELSE [row |-> r, changed |-> FALSE]

\* Lines 67-82: the weight footprint of a cached row is backfilled from its
\* config_json when it is missing (None or 0.0) and the estimate exists.
backfill(r) ==
    LET cfg == IF r.config_json = None THEN EmptyConfig
               ELSE Val(r.config_json)
        w == estimate_weights_gib(cfg)
        missing == r.minimal_gpu_memory_gb = None
                     \/ Val(r.minimal_gpu_memory_gb).num = 0
    IN  IF missing /\ w # None
        THEN [row |-> [r EXCEPT !.minimal_gpu_memory_gb = w],
              changed |-> TRUE]
        ELSE [row |-> r, changed |-> FALSE]

\* get_model_details(model_id, False) on a table that holds a row for
\* model_id, run from lookup to return with no other caller in between:
\* the descriptor it returns and the table it leaves.
get_model_details_cached(rows, model_id) ==
    LET r == CHOOSE r \in rows : r.model_id = model_id
        b == backfill(r)
    IN  [details |-> b.row,
         rows |-> IF b.changed THEN save_model(rows, b.row) ELSE rows]

\* _lookup_model, then lines 66-96: with a row and no force, the weight
\* footprint is backfilled from config_json when it is missing; a changed
\* row goes to save_model, an unchanged one is returned.  Without a row,
\* or forced, the caller goes on to fetch.
Lookup(p) ==
    /\ pc[p] = "lookup"
    /\ LET o == Val(op[p])
           rows == {r \in table : r.model_id = o.model_id}
       IN  \/ /\ rows = {} \/ o.force_recalc_kv
              /\ \E found \in {None} \cup {Some(r) : r \in rows} :
                    /\ (rows # {} => found # None)
                    /\ result' = [result EXCEPT ![p] = found]
              /\ pc' = [pc EXCEPT ![p] = "fetch"]
              /\ UNCHANGED <<op, response>>
           \/ /\ rows # {} /\ ~o.force_recalc_kv
              /\ \E r \in rows :
                    LET b == backfill(r)
                    IN  IF b.changed
                        THEN /\ result' = [result EXCEPT ![p] = Some(b.row)]
                             /\ pc' = [pc EXCEPT ![p] = "backfill_save"]
                             /\ UNCHANGED <<op, response>>
                        ELSE Return(p, Some(r))
    /\ UNCHANGED <<table, fetched, lastWrite>>
    /\ UNCHANGED <<varsKV, varsRec>>

\* save_model of the backfilled row (line 87), which is then returned.
BackfillSave(p) ==
    /\ pc[p] = "backfill_save"
    /\ table' = save_model(table, Val(result[p]))
    /\ lastWrite' = [lastWrite EXCEPT ![Val(result[p]).model_id] =
                        Some(db_row(Val(result[p])))]
    /\ Return(p, result[p])
    /\ UNCHANGED fetched
    /\ UNCHANGED <<varsKV, varsRec>>

\* hf_hub_download fails (lines 111-118): the row found by the lookup, if
\* any, is returned, else None.
FetchFails(p) ==
    /\ pc[p] = "fetch"
    /\ Return(p, result[p])
    /\ UNCHANGED <<table, fetched, lastWrite>>
    /\ UNCHANGED <<varsKV, varsRec>>

\* hf_hub_download succeeds and _extract_from_config runs (lines 101-107):
\* an exception it raises is caught like a failed download.
Fetch(p) ==
    /\ pc[p] = "fetch"
    /\ \E cfg \in RemoteConfigs :
          LET e == extract_from_config(Val(op[p]).model_id, cfg)
          IN  /\ fetched' = [fetched EXCEPT ![p] = Some(cfg)]
              /\ IF e.raised
                 THEN Return(p, result[p])
                 ELSE /\ result' = [result EXCEPT ![p] = e.v]
                      /\ pc' = [pc EXCEPT ![p] = "save"]
                      /\ UNCHANGED <<op, response>>
    /\ UNCHANGED <<table, lastWrite>>
    /\ UNCHANGED <<varsKV, varsRec>>

\* save_model of the extracted descriptor (line 108), which is returned.
Save(p) ==
    /\ pc[p] = "save"
    /\ table' = save_model(table, Val(result[p]))
    /\ lastWrite' = [lastWrite EXCEPT ![Val(result[p]).model_id] =
                        Some(db_row(Val(result[p])))]
    /\ Return(p, result[p])
    /\ UNCHANGED fetched
    /\ UNCHANGED <<varsKV, varsRec>>

Next ==
    \E p \in Callers :
        \/ Call(p)
        \/ Lookup(p)
        \/ BackfillSave(p)
        \/ FetchFails(p)
        \/ Fetch(p)
        \/ Save(p)

Spec == InitSvc /\ [][Next]_vars

\* -------------------------------------------------------- properties of Spec

\* The config has no KV footprint of its own and lacks the layer count,
\* the hidden size or any head count.
KvInsufficient(cfg) ==
    /\ cfg.kv_cache_fp16_gb = None
    /\ \/ cfg.num_hidden_layers = None
       \/ cfg.hidden_size = None
       \/ (cfg.num_key_value_heads = None /\ cfg.num_attention_heads = None)

\* The caller has its response, and the config its request last fetched
\* was insufficient for the KV footprint.
AnsweredInsufficient(p) ==
    /\ pc[p] = "idle"
    /\ response[p] # None
    /\ fetched[p] # None
    /\ KvInsufficient(Val(fetched[p]))

\* C9: resolving a model whose fetched config is insufficient for the KV
\* footprint yields a stored and returned descriptor with missing_kv_cache
\* set, not a not-found outcome, and a recommendation for it with a KV
\* override succeeds.
C9_InsufficientConfigGivesMarker ==
    \A p \in Callers :
        AnsweredInsufficient(p) =>
            /\ Val(response[p]).status = 200
            /\ Val(op[p]).kind \in {"get_model", "recalc"} =>
                  /\ Val(response[p]).details # None
                  /\ Marked(Val(Val(response[p]).details).missing_kv_cache)
                  /\ \E r \in table : r.model_id = Val(op[p]).model_id

\* C10: at all times the table holds at most one row per model_id, and that
\* row is exactly the row the latest save_model call for the model_id wrote
\* (before any save: a row the service started with).
C10_UpsertWholeRecord ==
    \A id \in ModelIds :
        LET rows == {r \in table : r.model_id = id}
        IN  /\ Cardinality(rows) <= 1
            /\ lastWrite[id] # None => rows = {Val(lastWrite[id])}
            /\ lastWrite[id] = None => rows \subseteq LegacyRows

\* C10 witness: a non-forced caller read the 2-layer row, a recalc of the
\* other caller then saved a 4-layer row, and the first caller's backfill
\* save came last: the table holds the first caller's row, whole.
C10_Witness ==
    \E p, q \in Callers :
        /\ p # q
        /\ pc[p] = "idle" /\ pc[q] = "idle"
        /\ response[p] # None /\ response[q] # None
        /\ Val(op[p]).kind = "get_model" /\ ~Val(op[p]).force_recalc_kv
        /\ Val(op[q]).kind = "recalc"
        /\ Val(response[p]).details # None
        /\ Val(response[q]).details # None
        /\ Val(Val(response[p]).details).num_hidden_layers = Some(2)
        /\ Val(Val(response[q]).details).num_hidden_layers = Some(4)
        /\ table = {db_row(Val(Val(response[p]).details))}
        /\ lastWrite[Val(op[p]).model_id] = Some(db_row(Val(Val(response[p]).details)))

\* The rows the table holds for a model.
RowsOf(model_id) == {r \in table : r.model_id = model_id}

\* The descriptor d is the stored row r, with at most a missing weight
\* footprint filled in.
AtMostWeightBackfilled(r, d) ==
    /\ [d EXCEPT !.minimal_gpu_memory_gb = r.minimal_gpu_memory_gb] = r
    /\ d # r => /\ \/ r.minimal_gpu_memory_gb = None
                   \/ Val(r.minimal_gpu_memory_gb).num = 0
                /\ d.minimal_gpu_memory_gb # None

\* On any table the service reaches that holds a row for the model, a
\* non-forced resolution returns the stored row with at most the weight
\* footprint backfilled and leaves the returned descriptor stored, and a
\* second one returns the same descriptor and leaves the table unchanged.
SecondCallSame ==
    \A id \in ModelIds :
        RowsOf(id) # {} =>
            LET first == get_model_details_cached(table, id)
                second == get_model_details_cached(first.rows, id)
            IN  /\ \E r \in RowsOf(id) :
                      AtMostWeightBackfilled(r, first.details)
                /\ {r \in first.rows : r.model_id = id} = {first.details}
                /\ second.details = first.details
                /\ second.rows = first.rows

\* A step of a caller's get_model_details: it goes on to fetch only when
\* forced or when the table has no row; a non-forced lookup that finds a
\* row fetches nothing, leaves the table alone and either answers with that
\* row or goes to save it with the weight footprint backfilled; the save
\* stores the descriptor it then returns.
CacheFirstStep ==
    \A p \in Callers :
        /\ (pc[p] = "lookup" /\ pc'[p] = "fetch") =>
              (Val(op[p]).force_recalc_kv \/ RowsOf(Val(op[p]).model_id) = {})
        /\ (/\ pc[p] = "lookup" /\ pc'[p] # "lookup"
            /\ ~Val(op[p]).force_recalc_kv
            /\ RowsOf(Val(op[p]).model_id) # {}) =>
              /\ pc'[p] # "fetch"
              /\ fetched'[p] = fetched[p]
              /\ table' = table
              /\ \E r \in RowsOf(Val(op[p]).model_id) :
                    \/ /\ pc'[p] = "idle"
                       /\ response'[p] =
                              after_details(Val(op[p]), Some(r)).response
                    \/ /\ pc'[p] = "backfill_save"
                       /\ result'[p] # None
                       /\ Val(result'[p]) # r
                       /\ AtMostWeightBackfilled(r, Val(result'[p]))
        /\ (pc[p] = "backfill_save" /\ pc'[p] # "backfill_save") =>
              /\ pc'[p] = "idle"
              /\ fetched'[p] = fetched[p]
              /\ response'[p] = after_details(Val(op[p]), result[p]).response
              /\ {r \in table' : r.model_id = Val(op[p]).model_id}
                     = {Val(result[p])}

\* C13: non-forced model resolution is cache-first and idempotent: once a
\* row for the model is stored, get_model_details(model_id, False) fetches
\* nothing and returns the stored row with at most the weight footprint
\* backfilled; a second such call returns the same descriptor and leaves
\* the store unchanged; only a forced call or an absent row leads to a
\* fetch.
C13_CacheFirstIdempotent == []SecondCallSame /\ [][CacheFirstStep]_vars

\* One caller alone asked for a legacy row without force: it was answered
\* with the row, the weight footprint backfilled and stored, and nothing
\* was fetched.
C13_Witness ==
    \E p \in Callers :
        /\ \A q \in Callers \ {p} : op[q] = None
        /\ pc[p] = "idle" /\ op[p] # None
        /\ Val(op[p]).kind = "get_model"
        /\ ~Val(op[p]).force_recalc_kv
        /\ fetched[p] = None
        /\ response[p] # None
        /\ Val(response[p]).status = 200
        /\ Val(Val(response[p]).details).minimal_gpu_memory_gb # None
        /\ table = {Val(Val(response[p]).details)}
        /\ lastWrite[Val(op[p]).model_id] = Val(response[p]).details

\* ----------------------------------------------------- properties of SpecRec

\* The request was answered with a recommendation.
RecSucceeded == recPc = "done" /\ Val(rec).kind = "ok"

\* recommended followed by alternatives.
Ranked == <<Val(Val(rec).recommended)>> \o Val(rec).alternatives

\* The per-user KV footprint the request resolves to.
ReqKv ==
    get_effective_kv_cache(Val(req).model_info, Val(req).users,
        Val(req).kv_cache_override, Val(req).force_recalc_kv)

\* weights + per-user KV * users.
TotalDemand ==
    QAdd(Val(Val(req).model_info.minimal_gpu_memory_gb),
         QMulInt(Val(ReqKv.v), Val(req).users))

\* Every catalog record has a numeric memory capacity and the KV demand
\* of the request is positive.
WellFormed ==
    /\ \A k \in 1..Len(catalog) : catalog[k].vram # None
    /\ ~ReqKv.raised
    /\ ReqKv.v # None
    /\ Val(ReqKv.v).num > 0

\* C1: for a request with users > 0 the memory demand that filters the
\* devices and is reported equals the weight footprint plus the per-user
\* KV footprint times users (stated on well-formed catalogs and a positive
\* KV footprint).
C1_DemandIsWeightsPlusKvTimesUsers ==
    (RecSucceeded /\ Val(req).users > 0 /\ WellFormed) =>
        /\ QEq(Val(Val(rec).required_vram), TotalDemand)
        /\ \A i \in 1..Len(Ranked) :
              IntGeq(Val(Ranked[i].vram), TotalDemand)

\* The catalog is well formed and one of its devices meets the KV demand.
Satisfiable ==
    /\ WellFormed
    /\ \E k \in 1..Len(catalog) : IntGeq(Val(catalog[k].vram), Val(ReqKv.v))

\* C2: a latency target strictly below the model's base latency is
\* answered with an error and no recommendation; at equality the target
\* is accepted.
C2_InvalidTargetRejected ==
    recPc = "done" =>
        /\ (Val(req).latency < Val(req).base_latency_ms /\ WellFormed)
              => (Val(rec).kind # "ok" /\ Val(resp).status # 200)
        /\ (Val(req).latency = Val(req).base_latency_ms /\ Satisfiable)
              => Val(rec).kind = "ok"

\* No catalog record has a memory capacity that meets the KV demand.
NoDeviceSatisfies ==
    /\ WellFormed
    /\ \A i \in 1..Len(catalog) : ~IntGeq(Val(catalog[i].vram), Val(ReqKv.v))

\* C3: when no catalog device satisfies the demand (the empty catalog
\* included) the operation returns a non-error result with an empty
\* recommendation and no alternatives, not a failure.
C3_NoFeasibleIsEmptyResult ==
    (recPc = "done" /\ NoDeviceSatisfies) =>
        /\ Val(rec).kind = "ok"
        /\ Val(rec).recommended = None
        /\ Val(rec).alternatives = <<>>
        /\ Val(resp).status = 200

\* C4: in a successful result the alternatives do not contain the
\* recommended entry, contain no two equal entries and are at most 4.
C4_AlternativesDistinctAndCapped ==
    (RecSucceeded /\ WellFormed) =>
        LET alts == Val(rec).alternatives
        IN  /\ \A i \in 1..Len(alts) : alts[i] # Val(Val(rec).recommended)
            /\ \A i, j \in 1..Len(alts) : i # j => alts[i] # alts[j]
            /\ Len(alts) <= 4

\* C5: in a successful result the recommended device and every alternative
\* have memory capacity >= the required memory of that result.  A record
\* with no memory field has an unknown, non-negative capacity: it meets a
\* negative requirement and no other.
C5_CapacityMeetsRequired ==
    RecSucceeded =>
        \A i \in 1..Len(Ranked) :
            IF Ranked[i].vram # None
            THEN IntGeq(Val(Ranked[i].vram), Val(Val(rec).required_vram))
            ELSE Val(Val(rec).required_vram).num < 0

\* C5 witness: a catalog holding a 24 GiB and an 80 GiB device, a demand of
\* 50 GiB, and a result that keeps the 80 GiB device only.
C5_Witness ==
    /\ RecSucceeded
    /\ Val(Val(rec).required_vram) = Q(50, 1)
    /\ \E i \in 1..Len(catalog) : catalog[i].vram = Some(24)
    /\ \A i \in 1..Len(Ranked) : Ranked[i].vram = Some(80)
    /\ Len(Ranked) >= 2

\* C6: in a successful result, recommended followed by alternatives is
\* ascending by memory capacity, and among equal capacities the higher
\* throughput comes first.
C6_SortedByCapacityThenThroughput ==
    (RecSucceeded /\ WellFormed) =>
        \A i, j \in 1..Len(Ranked) :
            i < j =>
                /\ Val(Ranked[i].vram) <= Val(Ranked[j].vram)
                /\ Val(Ranked[i].vram) = Val(Ranked[j].vram)
                      => Ranked[i].throughput >= Ranked[j].throughput

\* The KV requirement of the request is one the selector accepts: it
\* resolves without an exception to a value that is not None and not 0.
KvAccepted == ~ReqKv.raised /\ ReqKv.v # None /\ Val(ReqKv.v).num # 0

\* The catalog without the records that lack a numeric memory field.
WithMemory(gpus) ==
    LET F[i \in 0..Len(gpus)] ==
            IF i = 0 THEN <<>>
            ELSE IF gpus[i].has_vram /\ gpus[i].vram # None
                 THEN Append(F[i - 1], gpus[i])
                 ELSE F[i - 1]
    IN  F[Len(gpus)]

\* C11: a catalog record that lacks its numeric memory field (key absent or
\* value null) is skipped: it is neither recommended nor an alternative and
\* its presence never makes the selection fail, for any KV requirement the
\* selector accepts (a non-positive override included); the outcome is the
\* one the catalog without such records gives.
C11_MalformedEntrySkipped ==
    (recPc = "done" /\ KvAccepted) =>
        /\ Val(rec).kind # "raise"
        /\ Val(rec).kind = "ok" =>
              \A i \in 1..Len(Ranked) :
                  Ranked[i].has_vram /\ Ranked[i].vram # None
        /\ Val(rec) = get_gpu_recommendation(Val(req).model_info,
                          WithMemory(catalog), Val(req).users,
                          Val(req).latency, Val(req).kv_cache_override,
                          Val(req).force_recalc_kv)

\* The estimate from the descriptor's architecture fields at the default
\* sequence length and byte width.
FreshEstimate ==
    estimate_kv_cache_gb(
        [num_layers |-> Val(req).model_info.num_hidden_layers,
         num_attention_heads |-> Val(req).model_info.num_attention_heads,
         hidden_size |-> Val(req).model_info.hidden_size,
         seq_len |-> Some(DefaultSeqLen),
         dtype_bytes |-> Some(DefaultDtypeBytes),
         head_dim |-> None])

\* C12: with no override and force_recalc_kv false a stored positive KV
\* footprint is returned unchanged; with force_recalc_kv true and no
\* override the stored value is ignored and the freshly estimated value (or
\* the missing-KV error result) is returned, never an exception.
C12_KvSourcePrecedence ==
    (recPc = "done" /\ Val(req).kv_cache_override = None) =>
        /\ (~Val(req).force_recalc_kv
               /\ Val(req).model_info.kv_cache_fp16_gb # None
               /\ Val(Val(req).model_info.kv_cache_fp16_gb).num > 0)
              => ReqKv = Returned(Val(req).model_info.kv_cache_fp16_gb)
        /\ Val(req).force_recalc_kv =>
              /\ ReqKv = Returned(FreshEstimate)
              /\ (\A k \in 1..Len(catalog) : catalog[k].vram # None)
                    => Val(rec).kind # "raise"

\* ------------------------------------------------------ properties of SpecKV

\* The doubled call returned exactly twice the byte total of the base call.
ExactlyDoubled ==
    /\ kvDoubled # None
    /\ Val(kvDoubled).den = Val(kvBase).den
    /\ Val(kvDoubled).num = 2 * Val(kvBase).num

\* C7 as stated: for every resolvable input, doubling num_layers, seq_len or
\* the KV head count (all else fixed, head_dim derived or not) exactly
\* doubles the byte total.
C7_LinearInAllThree ==
    (kvWhich \in DoubledArg /\ kvBase # None) => ExactlyDoubled

\* C7 amended: for every resolvable input, doubling num_layers or seq_len
\* exactly doubles the byte total, and doubling the KV head count does so
\* when head_dim is passed explicitly (not derived from hidden_size).
C7_LinearLayersSeqExplicitHeads ==
    /\ (kvWhich \in {"num_layers", "seq_len"} /\ kvBase # None)
          => ExactlyDoubled
    /\ (kvWhich = "num_attention_heads" /\ kvBase # None
            /\ kvArgs.head_dim # None)
          => ExactlyDoubled

\* C7 witness: a resolvable input with derived head_dim and a positive byte
\* total whose num_layers was doubled, giving twice the bytes.
C7_Witness ==
    /\ kvWhich = "num_layers"
    /\ kvArgs.head_dim = None
    /\ kvBase # None
    /\ Val(kvBase).num > 0
    /\ ExactlyDoubled

\* Some required argument is missing or zero.
KvRequiredMissing ==
    \E k \in {"num_layers", "num_attention_heads", "hidden_size",
              "seq_len", "dtype_bytes"} : ~Truthy(kvArgs[k])

\* head_dim, passed or derived as hidden_size // heads, is <= 0.
KvHeadDimNonPositive ==
    IF kvArgs.head_dim # None
    THEN Val(kvArgs.head_dim) <= 0
    ELSE /\ Truthy(kvArgs.num_attention_heads)
         /\ kvArgs.hidden_size # None
         /\ Val(kvArgs.hidden_size) \div Val(kvArgs.num_attention_heads) <= 0

\* C8: estimate_kv_cache_gb returns None whenever a required argument is
\* missing or zero or head_dim (derived or explicit) is <= 0, and never
\* returns a zero or negative size.
C8_NoneOnMissingOrBadHeadDim ==
    kvWhich # "args" =>
        /\ (KvRequiredMissing \/ KvHeadDimNonPositive) => kvBase = None
        /\ kvBase # None => Val(kvBase).num > 0

====
